---------------------------- MODULE Spec2Model ----------------------------
(***************************************************************************)
(* A model of ztunnel's proxy state core (src/src/state.rs): the           *)
(* DemandProxyState facade (the fetch_* methods, fetch_on_demand,          *)
(* fetch_upstream, fetch_waypoint, assert_rbac and load_balance) running   *)
(* against the discovery updater, ProxyState's composite lookups, and the  *)
(* DnsResolver with its single-flight resolve_host.                        *)
(*                                                                         *)
(* The workload, service and policy stores, the Demander and the rbac      *)
(* matcher live in modules that are not part of state.rs; they are         *)
(* modelled from their description in the specification.                   *)
(***************************************************************************)
EXTENDS Integers, Sequences, FiniteSets, TLC

(***************************************************************************)
(* Option<T>, and the Address enum returned by the lookups.                *)
(***************************************************************************)
None == [tag |-> "None"]

Some(x) == [tag |-> "Some", val |-> x]

AddressWorkload(w) == [tag |-> "Workload", val |-> w]

AddressService(s) == [tag |-> "Service", val |-> s]

Bool(b) == [tag |-> "Bool", val |-> b]

\* Result<T, E>.
Ok(x) == [tag |-> "Ok", val |-> x]

Err(e) == [tag |-> "Err", val |-> [error |-> e]]

\* SocketAddr, and the two kinds of gateway Destination.
SocketAddr(ip, port) == [ip |-> ip, port |-> port]

DestinationAddress(a) == [tag |-> "Address", val |-> a]

DestinationHostname(h) == [tag |-> "Hostname", val |-> h]

\* A map (HashMap<u16, u16>) is a function; its get returns an Option.
EmptyMap == [k \in {} |-> 0]

map_get(m, k) == IF k \in DOMAIN m THEN Some(m[k]) ELSE None

(***************************************************************************)
(* The data the discovery server may deliver.                              *)
(***************************************************************************)
network_addr(network, ip) == [network |-> network, address |-> ip]

NetworkAddresses ==
    { network_addr("", "10.0.0.1"), network_addr("", "10.0.0.2"),
      network_addr("remote", "10.0.0.1") }

\* Two versions of workload w1 (the second one moved to namespace ns2, got
\* an attached policy and speaks plain TCP) and a hostname-only workload w2
\* that sits behind a waypoint of its own.
WorkloadCatalog ==
    { [uid |-> "w1", namespace |-> "ns1", network |-> "",
       workload_ips |-> <<"10.0.0.1">>, hostname |-> "",
       authorization_policies |-> <<>>,
       protocol |-> "HBONE", waypoint |-> None, gateway_address |-> None],
      [uid |-> "w1", namespace |-> "ns2", network |-> "",
       workload_ips |-> <<"10.0.0.1">>, hostname |-> "",
       authorization_policies |-> <<"ns1/a", "ns3/w">>,
       protocol |-> "TCP", waypoint |-> None, gateway_address |-> None],
      [uid |-> "w2", namespace |-> "ns1", network |-> "",
       workload_ips |-> <<>>, hostname |-> "w2.host",
       authorization_policies |-> <<>>,
       protocol |-> "HBONE",
       waypoint |-> Some([destination |->
                              DestinationAddress(network_addr("", "10.0.0.9")),
                          hbone_mtls_port |-> 15009]),
       gateway_address |-> None] }

\* Two versions of a further workload w3: one whose own waypoint is given by
\* hostname, one that already carries a gateway address.
GatewayCatalog ==
    { [uid |-> "w3", namespace |-> "ns1", network |-> "",
       workload_ips |-> <<"10.0.0.3">>, hostname |-> "",
       authorization_policies |-> <<>>,
       protocol |-> "HBONE",
       waypoint |-> Some([destination |->
                              DestinationHostname([namespace |-> "ns1",
                                                   hostname |-> "wp.host"]),
                          hbone_mtls_port |-> 15008]),
       gateway_address |-> None],
      [uid |-> "w3", namespace |-> "ns1", network |-> "",
       workload_ips |-> <<"10.0.0.3">>, hostname |-> "",
       authorization_policies |-> <<>>,
       protocol |-> "TCP", waypoint |-> None,
       gateway_address |-> Some(SocketAddr("10.9.9.9", 15001))] }

Uids == { w.uid : w \in WorkloadCatalog }

\* A service on a VIP of its own with two endpoints, each overriding one of
\* the service's ports, and a service without endpoints whose VIP is also
\* w1's address.
ServiceCatalog ==
    { [name |-> "s1", namespace |-> "default", hostname |-> "svc.host",
       vips |-> {network_addr("", "10.0.0.2")},
       ports |-> (80 :> 8080 @@ 15008 :> 15018),
       subject_alt_names |-> <<"spiffe://td/ns/default/sa/s1">>,
       endpoints |-> {[workload_uid |-> "w1", port |-> (80 :> 9090)],
                      [workload_uid |-> "w2", port |-> (15008 :> 15028)]}],
      [name |-> "s2", namespace |-> "default", hostname |-> "w2.host",
       vips |-> {network_addr("", "10.0.0.1")},
       ports |-> (80 :> 8080),
       subject_alt_names |-> <<>>,
       endpoints |-> {}] }

NamespacedHostnames ==
    { [namespace |-> "default", hostname |-> "svc.host"],
      [namespace |-> "default", hostname |-> "w2.host"],
      [namespace |-> "other", hostname |-> "w2.host"] }

(***************************************************************************)
(* Workload store: the live workloads, looked up by uid, by address and by *)
(* hostname.  The updater keeps uids, addresses and hostnames unique.      *)
(***************************************************************************)
WorkloadAddrs(w) ==
    { network_addr(w.network, w.workload_ips[i]) : i \in DOMAIN w.workload_ips }

Opt(S) == IF S = {} THEN None ELSE Some(CHOOSE x \in S : TRUE)

workloads_find_uid(ws, uid) == Opt({ w \in ws : w.uid = uid })

workloads_find_address(ws, addr) == Opt({ w \in ws : addr \in WorkloadAddrs(w) })

workloads_find_hostname(ws, hostname) ==
    Opt({ w \in ws : w.hostname # "" /\ w.hostname = hostname })

workloads_insert(ws, w) == { x \in ws : x.uid # w.uid } \cup {w}

workloads_remove(ws, uid) == { x \in ws : x.uid # uid }

(***************************************************************************)
(* Service store.                                                          *)
(***************************************************************************)
services_get_by_vip(ss, addr) == Opt({ s \in ss : addr \in s.vips })

services_get_by_namespaced_host(ss, name) ==
    Opt({ s \in ss : s.namespace = name.namespace /\ s.hostname = name.hostname })

services_get_by_workload(ss, w) ==
    { s \in ss : \E e \in s.endpoints : e.workload_uid = w.uid }

\* The description of a service that an Upstream carries.
ServiceDescription(s) ==
    [hostname |-> s.hostname, name |-> s.name, namespace |-> s.namespace]

services_insert(ss, s) == { x \in ss : x.name # s.name } \cup {s}

services_remove(ss, name) == { x \in ss : x.name # name }

(***************************************************************************)
(* Policy store, and the rbac matcher: a policy matches a connection when  *)
(* the connection's source identity is one of its principals.              *)
(***************************************************************************)
PolicyKeys == {"ns1/a", "/g", "ns3/w"}

PolicyNamespace(key) ==
    CASE key = "ns1/a" -> "ns1"
      [] key = "/g" -> ""
      [] key = "ns3/w" -> "ns3"

PolicyCatalog ==
    { p \in [key : PolicyKeys, action : {"Allow", "Deny"},
             principals : {{}, {"client-a"}}] :
        p.key = "ns3/w" => p.principals # {} }

RECURSIVE SetToSeq(_)
SetToSeq(S) ==
    IF S = {} THEN <<>>
    ELSE LET x == CHOOSE y \in S : TRUE IN <<x>> \o SetToSeq(S \ {x})

policies_get(ps, key) == Opt({ p \in ps : p.key = key })

policies_get_by_namespace(ps, ns) ==
    SetToSeq({ p.key : p \in { q \in ps : PolicyNamespace(q.key) = ns } })

policies_insert(ps, p) == { x \in ps : x.key # p.key } \cup {p}

policies_remove(ps, key) == { x \in ps : x.key # key }

matches(pol, conn) == conn.src_identity \in pol.principals

Connections ==
    { [src_identity |-> "client-a", dst_network |-> "", dst |-> "10.0.0.1"],
      [src_identity |-> "client-b", dst_network |-> "", dst |-> "10.0.0.1"],
      [src_identity |-> "client-a", dst_network |-> "", dst |-> "10.0.0.2"] }

(***************************************************************************)
(* ProxyState: the composite lookups over the stores.                      *)
(***************************************************************************)
\* The lookup by address with the service table consulted first.
find_address_service_first(ws, ss, addr) ==
    LET svc == services_get_by_vip(ss, addr) IN
    IF svc = None
    THEN LET wl == workloads_find_address(ws, addr) IN
         IF wl # None THEN Some(AddressWorkload(wl.val)) ELSE None
    ELSE Some(AddressService(svc.val))

find_address(ws, ss, addr) ==
    LET wl == workloads_find_address(ws, addr) IN
    IF wl = None
    THEN LET svc == services_get_by_vip(ss, addr) IN
         IF svc # None THEN Some(AddressService(svc.val)) ELSE None
    ELSE Some(AddressWorkload(wl.val))

\* The lookup by hostname with the workload table consulted first.
find_hostname_workload_first(ws, ss, name) ==
    LET wl == workloads_find_hostname(ws, name.hostname) IN
    IF wl = None
    THEN LET svc == services_get_by_namespaced_host(ss, name) IN
         IF svc # None THEN Some(AddressService(svc.val)) ELSE None
    ELSE Some(AddressWorkload(wl.val))

find_hostname(ws, ss, name) ==
    LET svc == services_get_by_namespaced_host(ss, name) IN
    IF svc = None
    THEN LET wl == workloads_find_hostname(ws, name.hostname) IN
         IF wl # None THEN Some(AddressWorkload(wl.val)) ELSE None
    ELSE Some(AddressService(svc.val))

Upstream(workload, port, sans, destination_service) ==
    [workload |-> workload, port |-> port, sans |-> sans,
     destination_service |-> destination_service]

\* The Upstream built for endpoint ep of service svc, if ep's workload is known.
upstream_of_endpoint(ws, svc, ep, addr, target_port) ==
    LET wl == workloads_find_uid(ws, ep.workload_uid) IN
    IF wl = None THEN None
    ELSE LET port == map_get(ep.port, addr.port) IN
         Some(Upstream(wl.val,
                       IF port # None THEN port.val ELSE target_port,
                       svc.subject_alt_names,
                       Some(ServiceDescription(svc))))

\* find_upstream without the endpoint's port override.
find_upstream_no_override(ws, ss, network, addr) ==
    LET svc == services_get_by_vip(ss, network_addr(network, addr.ip)) IN
    IF svc # None
    THEN LET target_port == map_get(svc.val.ports, addr.port) IN
         IF target_port = None THEN {None}
         ELSE IF svc.val.endpoints = {} THEN {None}
         ELSE { upstream_of_endpoint(ws, svc.val, [ep EXCEPT !.port = EmptyMap],
                                     addr, target_port.val) :
                  ep \in svc.val.endpoints }
    ELSE LET wl == workloads_find_address(ws, network_addr(network, addr.ip)) IN
         IF wl # None THEN {Some(Upstream(wl.val, addr.port, <<>>, None))}
         ELSE {None}

\* find_upstream falling through to the workload table when the service does
\* not declare the port or has no endpoint.
find_upstream_fallthrough(ws, ss, network, addr) ==
    LET svc == services_get_by_vip(ss, network_addr(network, addr.ip))
        wl == workloads_find_address(ws, network_addr(network, addr.ip))
    IN IF /\ svc # None
          /\ map_get(svc.val.ports, addr.port) # None
          /\ svc.val.endpoints # {}
       THEN { upstream_of_endpoint(ws, svc.val, ep, addr,
                                   map_get(svc.val.ports, addr.port).val) :
                ep \in svc.val.endpoints }
       ELSE IF wl # None THEN {Some(Upstream(wl.val, addr.port, <<>>, None))}
       ELSE {None}

\* find_upstream: the set of values it may return, one per endpoint that the
\* random choice may pick.
find_upstream(ws, ss, network, addr) ==
    LET svc == services_get_by_vip(ss, network_addr(network, addr.ip)) IN
    IF svc # None
    THEN LET target_port == map_get(svc.val.ports, addr.port) IN
         IF target_port = None THEN {None}
         ELSE IF svc.val.endpoints = {} THEN {None}
         ELSE { upstream_of_endpoint(ws, svc.val, ep, addr, target_port.val) :
                  ep \in svc.val.endpoints }
    ELSE LET wl == workloads_find_address(ws, network_addr(network, addr.ip)) IN
         IF wl # None THEN {Some(Upstream(wl.val, addr.port, <<>>, None))}
         ELSE {None}

\* Workload::waypoint_svc_ip_address: the address of the workload's waypoint,
\* an error when the waypoint is given by hostname.
waypoint_svc_ip_address(w) ==
    IF w.waypoint = None THEN Ok(None)
    ELSE IF w.waypoint.val.destination.tag = "Hostname"
    THEN Err("UnsupportedFeature")
    ELSE Ok(Some(w.waypoint.val.destination.val.address))

\* set_gateway_address writing the gateway whether or not one is set.
set_gateway_address_overwrite(us, workload_ip, hbone_port) ==
    IF us.workload.protocol = "HBONE"
    THEN LET ip == waypoint_svc_ip_address(us.workload) IN
         IF ip.tag = "Err" THEN ip
         ELSE Ok([us EXCEPT !.workload.gateway_address =
                     Some(SocketAddr(IF ip.val # None THEN ip.val.val
                                     ELSE workload_ip, hbone_port))])
    ELSE Ok([us EXCEPT !.workload.gateway_address =
                Some(SocketAddr(workload_ip, us.port))])

\* set_gateway_address: Ok with the upstream as it leaves it, or the error.
set_gateway_address(us, workload_ip, hbone_port) ==
    IF us.workload.gateway_address = None
    THEN IF us.workload.protocol = "HBONE"
         THEN LET ip == waypoint_svc_ip_address(us.workload) IN
              IF ip.tag = "Err" THEN ip
              ELSE Ok([us EXCEPT !.workload.gateway_address =
                          Some(SocketAddr(IF ip.val # None THEN ip.val.val
                                          ELSE workload_ip, hbone_port))])
         ELSE Ok([us EXCEPT !.workload.gateway_address =
                     Some(SocketAddr(workload_ip, us.port))])
    ELSE Ok(us)

\* fetch_waypoint handing out the upstream as found when the gateway address
\* cannot be set.
fetch_waypoint_found_lenient(wl_name, gw_address, workload_ip, found) ==
    IF found = None THEN Err("FindWaypointError")
    ELSE LET r == set_gateway_address(found.val, workload_ip,
                                      gw_address.hbone_mtls_port) IN
         IF r.tag = "Ok" THEN Ok(Some(r.val)) ELSE Ok(Some(found.val))

\* What fetch_waypoint makes of the outcome of fetch_upstream.
fetch_waypoint_found(wl_name, gw_address, workload_ip, found) ==
    IF found = None THEN Err("FindWaypointError")
    ELSE LET r == set_gateway_address(found.val, workload_ip,
                                      gw_address.hbone_mtls_port) IN
         IF r.tag = "Ok" THEN Ok(Some(r.val)) ELSE Err("FindWaypointError")

\* fetch_waypoint before its first await: the two early returns.
fetch_waypoint_entry(w) ==
    IF w.waypoint = None THEN [pc |-> "done", result |-> Ok(None)]
    ELSE IF w.waypoint.val.destination.tag = "Hostname"
    THEN [pc |-> "done", result |-> Err("UnsupportedFeature")]
    ELSE [pc |-> "lookup1", result |-> None]

(***************************************************************************)
(* State.                                                                  *)
(*   workloads, services, policies   the ProxyState behind the RwLock      *)
(*   demand       whether a discovery client (Demander) is attached        *)
(*   op, arg, pc  the facade call in progress and its position             *)
(*   first        result of the call's first local lookup                  *)
(*   demands      the on-demand requests the call has issued               *)
(*   awaited      the number of delivery signals the call has consumed     *)
(*   receipt      state of the call's outstanding demand                   *)
(*   delivered    what the key denoted right after the delivery was written*)
(*   removed      the updater removed or replaced that record since        *)
(*   wl           assert_rbac's copy of the destination workload           *)
(*   result       the value the call returns                               *)
(*   resolved     DnsResolver.resolved: hostname -> ResolvedDns            *)
(*   in_progress  DnsResolver.in_progress: hostname -> Notify              *)
(*   notify_calls per Notify, the number of notify_waiters calls so far    *)
(*   now          the clock, in seconds                                    *)
(*   dpc, host, n, is_first, snapshot, dresult                             *)
(*                per resolve_host caller: its position, its hostname, its *)
(*                Notify handle, whether it created it, the number of      *)
(*                notify_waiters calls its Notified future was created at, *)
(*                and the value it returns                                 *)
(*   lookup_outcome                                                        *)
(*                per caller, how the _resolve_host it ran ended: not run  *)
(*                (None), with an error (Failed) or with the response it   *)
(*                got stored in resolved at an instant (Stored)            *)
(***************************************************************************)
VARIABLES workloads, services, policies, demand,
          op, arg, pc, first, demands, awaited, receipt, delivered, removed,
          wl, result,
          resolved, in_progress, notify_calls, now,
          dpc, host, n, is_first, snapshot, dresult, lookup_outcome,
          guards, held

dnsVars == <<resolved, in_progress, notify_calls, now,
             dpc, host, n, is_first, snapshot, dresult, lookup_outcome>>

storeVars == <<workloads, services, policies>>

callVars == <<op, arg, pc, first, demands, awaited, receipt, delivered, removed,
              wl, result>>

ADDRESS_TYPE == "type.googleapis.com/istio.workload.Address"

FetchOps ==
    {"fetch_address", "fetch_hostname", "fetch_workload",
     "fetch_workload_by_uid", "fetch_workload_services"}

FetchArgs(o) ==
    CASE o = "fetch_hostname" -> NamespacedHostnames
      [] o = "fetch_workload_by_uid" -> Uids
      [] OTHER -> NetworkAddresses

\* Display of NetworkAddress and NamespacedHostname; a uid is a string already.
to_string(o, a) ==
    CASE o = "fetch_hostname" -> a.namespace \o "/" \o a.hostname
      [] o = "fetch_workload_by_uid" -> a
      [] OTHER -> a.network \o "/" \o a.address

\* The fetch an operation runs, and the key it runs it on: assert_rbac fetches
\* the workload at the connection's destination.
UpstreamOps == {"fetch_upstream", "fetch_waypoint"}

\* The (network, socket address) that fetch_upstream is called with:
\* fetch_waypoint calls it with the waypoint's address and HBONE port.
UpstreamNetwork ==
    IF op = "fetch_waypoint"
    THEN arg.wl.waypoint.val.destination.val.network
    ELSE arg.network

UpstreamAddr ==
    IF op = "fetch_waypoint"
    THEN SocketAddr(arg.wl.waypoint.val.destination.val.address,
                    arg.wl.waypoint.val.hbone_mtls_port)
    ELSE arg.addr

FetchOp ==
    IF op = "assert_rbac" THEN "fetch_workload"
    ELSE IF op \in UpstreamOps THEN "fetch_address"
    ELSE op

FetchArg ==
    IF op = "assert_rbac" THEN network_addr(arg.dst_network, arg.dst)
    ELSE IF op \in UpstreamOps THEN network_addr(UpstreamNetwork, UpstreamAddr.ip)
    ELSE arg

\* The local lookup of each fetch method, under one read-lock acquisition.
lookup(o, a, ws, ss) ==
    CASE o = "fetch_address" -> find_address(ws, ss, a)
      [] o = "fetch_hostname" -> find_hostname(ws, ss, a)
      [] o = "fetch_workload" -> workloads_find_address(ws, a)
      [] o = "fetch_workload_by_uid" -> workloads_find_uid(ws, a)
      [] o = "fetch_workload_services" ->
            LET w == workloads_find_address(ws, a) IN
            IF w = None THEN None
            ELSE Some(<<w.val, services_get_by_workload(ss, w.val)>>)

(***************************************************************************)
(* assert_rbac's decision over the workload copy, the policy table and the *)
(* connection.                                                             *)
(***************************************************************************)
RECURSIVE filter_map_get(_, _)
filter_map_get(keys, ps) ==
    IF keys = <<>> THEN <<>>
    ELSE LET p == policies_get(ps, Head(keys)) IN
         (IF p = None THEN <<>> ELSE <<p.val>>) \o filter_map_get(Tail(keys), ps)

\* The gathering without the workload's attached policies.
rbac_policies_unattached(w, ps) ==
    LET ns == policies_get_by_namespace(ps, w.namespace)
        global == policies_get_by_namespace(ps, "")
    IN filter_map_get(ns \o global, ps)

\* The gathering over every stored policy, whatever its namespace.
rbac_policies_every_namespace(w, ps) ==
    LET ns == policies_get_by_namespace(ps, w.namespace)
        global == policies_get_by_namespace(ps, "")
        other == SetToSeq({ p.key : p \in ps })
        workload == w.authorization_policies
    IN filter_map_get(ns \o global \o other \o workload, ps)

rbac_policies(w, ps) ==
    LET ns == policies_get_by_namespace(ps, w.namespace)
        global == policies_get_by_namespace(ps, "")
        workload == w.authorization_policies
    IN filter_map_get(ns \o global \o workload, ps)

IsAllow(p) == p.action = "Allow"

IsNotAllow(p) == ~IsAllow(p)

RECURSIVE any_matches(_, _)
any_matches(pols, conn) ==
    IF pols = <<>> THEN FALSE
    ELSE IF matches(Head(pols), conn) THEN TRUE
    ELSE any_matches(Tail(pols), conn)

\* assert_rbac with the Allow stages moved before the Deny stage.
assert_rbac_decide_allow_first(w, ps, conn) ==
    LET allow == SelectSeq(rbac_policies(w, ps), IsAllow)
        deny == SelectSeq(rbac_policies(w, ps), IsNotAllow)
    IN IF allow = <<>> THEN ~any_matches(deny, conn)
       ELSE IF any_matches(allow, conn) THEN TRUE
       ELSE FALSE

\* assert_rbac without the stage that allows when no Allow policy applies.
assert_rbac_decide_no_default(w, ps, conn) ==
    LET allow == SelectSeq(rbac_policies(w, ps), IsAllow)
        deny == SelectSeq(rbac_policies(w, ps), IsNotAllow)
    IN IF any_matches(deny, conn) THEN FALSE
       ELSE IF any_matches(allow, conn) THEN TRUE
       ELSE FALSE

assert_rbac_decide(w, ps, conn) ==
    LET allow == SelectSeq(rbac_policies(w, ps), IsAllow)
        deny == SelectSeq(rbac_policies(w, ps), IsNotAllow)
    IN IF any_matches(deny, conn) THEN FALSE
       ELSE IF allow = <<>> THEN TRUE
       ELSE IF any_matches(allow, conn) THEN TRUE
       ELSE FALSE

\* An unknown destination treated as a workload without policies.
assert_rbac_fetched_allow(w) ==
    IF w = None THEN [pc |-> "done", result |-> Bool(TRUE)]
    ELSE [pc |-> "rbac", result |-> None]

\* What assert_rbac does with the outcome of fetch_workload.
assert_rbac_fetched(w) ==
    IF w = None THEN [pc |-> "done", result |-> Bool(FALSE)]
    ELSE [pc |-> "rbac", result |-> None]

(***************************************************************************)
(* DnsResolver: the pure parts.                                            *)
(***************************************************************************)
NumCallers == 2

Callers == 1 .. NumCallers

MaxTime == 2

Hosts == {"a.example"}

\* The answers a DNS lookup may give: records with a type, a TTL in seconds
\* and, for A and AAAA records, an address.
DnsResponses ==
    { <<>>,
      <<[rr_type |-> "CNAME", ttl |-> 0, data |-> "b.example"],
        [rr_type |-> "A", ttl |-> 3, data |-> "192.0.2.1"],
        [rr_type |-> "AAAA", ttl |-> 2, data |-> "2001:db8::1"]>>,
      <<[rr_type |-> "A", ttl |-> 0, data |-> "192.0.2.7"]>> }

\* Duration::from_secs(u64::MAX).  A TTL is a u32, so every TTL is below it;
\* the model, whose integers have 32 bits, uses the largest of them.
U64_MAX == 2147483647

EmptyRefreshSecs == 60

is_ip_addr(rr_type) == rr_type \in {"A", "AAAA"}

\* The refresh rate lowered by the TTL of every record, whatever its type.
RECURSIVE min_ttl_any_type(_, _)
min_ttl_any_type(records, dns_refresh_rate) ==
    IF records = <<>> THEN dns_refresh_rate
    ELSE LET record == Head(records) IN
         min_ttl_any_type(Tail(records),
                          IF record.ttl < dns_refresh_rate
                          THEN record.ttl ELSE dns_refresh_rate)

\* The filter_map closure's effect on dns_refresh_rate, record by record.
RECURSIVE min_ttl(_, _)
min_ttl(records, dns_refresh_rate) ==
    IF records = <<>> THEN dns_refresh_rate
    ELSE LET record == Head(records) IN
         min_ttl(Tail(records),
                 IF is_ip_addr(record.rr_type) /\ record.ttl < dns_refresh_rate
                 THEN record.ttl ELSE dns_refresh_rate)

record_ips(records) ==
    { records[i].data :
        i \in { j \in DOMAIN records : is_ip_addr(records[j].rr_type) } }

\* The ResolvedDns that _resolve_host builds from a response at instant t.
ResolvedDns(hostname, records, t) ==
    LET ips == record_ips(records) IN
    [hostname |-> hostname,
     ips |-> ips,
     initial_query |-> Some(t),
     dns_refresh_rate |-> IF ips = {} THEN EmptyRefreshSecs
                          ELSE min_ttl(records, U64_MAX)]

\* The cache with every entry taken for expired.
find_resolved_host_never(res, hostname, t) == None

find_resolved_host(res, hostname, t) ==
    IF /\ res[hostname] # None
       /\ res[hostname].val.initial_query # None
       /\ t - res[hostname].val.initial_query.val
            < res[hostname].val.dns_refresh_rate
    THEN res[hostname]
    ELSE None

\* A caller that installs a Notify of its own whatever the table holds.
get_or_create_notify_always(inprog, hostname, fresh) ==
    [in_progress |-> [inprog EXCEPT ![hostname] = Some(fresh)],
     n |-> Some(fresh), is_first |-> TRUE]

\* _get_or_create_notify, under the mutex; fresh names the Notify it creates.
get_or_create_notify(inprog, hostname, fresh) ==
    IF inprog[hostname] # None
    THEN [in_progress |-> inprog, n |-> inprog[hostname], is_first |-> FALSE]
    ELSE [in_progress |-> [inprog EXCEPT ![hostname] = Some(fresh)],
          n |-> Some(fresh), is_first |-> TRUE]

(***************************************************************************)
(* The facade call.                                                        *)
(***************************************************************************)
\* The decision function of assert_rbac on one state of the proxy state: the
\* workload at the connection's destination, checked against the policies.
rbac_decision(ws, ps, conn) ==
    LET w == workloads_find_address(ws, network_addr(conn.dst_network, conn.dst))
    IN IF w = None THEN FALSE ELSE assert_rbac_decide(w.val, ps, conn)

\* held after a write that leaves the tables (ws, ps): where the decisions of
\* the states held during a call of assert_rbac are recorded, the decision
\* of the new state joins them while the call is in progress.
record(ws, ps) ==
    IF held = None \/ op # "assert_rbac" \/ pc \in {"idle", "done"} THEN held
    ELSE Some(held.val \cup {rbac_decision(ws, ps, arg)})

\* The lock guards each task holds: of the proxy state's RwLock ("state.read",
\* "state.write"), of the RwLock over resolved ("resolved.read",
\* "resolved.write") and of the Mutex over in_progress ("in_progress").
NoGuards ==
    [facade |-> {}, updater |-> {}, resolver |-> [p \in Callers |-> {}]]

InitFacade ==
    /\ guards = NoGuards
    /\ workloads = {}
    /\ services = {}
    /\ policies = {}
    /\ op = "none"
    /\ arg = None
    /\ pc = "idle"
    /\ first = None
    /\ demands = <<>>
    /\ awaited = 0
    /\ receipt = "none"
    /\ delivered = None
    /\ removed = FALSE
    /\ wl = None
    /\ result = None

InitResolver ==
    /\ resolved = [h \in Hosts |-> None]
    /\ in_progress = [h \in Hosts |-> None]
    /\ notify_calls = [p \in Callers |-> 0]
    /\ now = 0
    /\ dpc = [p \in Callers |-> "idle"]
    /\ host = [p \in Callers |-> ""]
    /\ n = [p \in Callers |-> None]
    /\ is_first = [p \in Callers |-> FALSE]
    /\ snapshot = [p \in Callers |-> 0]
    /\ dresult = [p \in Callers |-> None]
    /\ lookup_outcome = [p \in Callers |-> None]

Init == InitFacade /\ held = None /\ demand \in BOOLEAN /\ InitResolver

Call(o, a) ==
    /\ pc = "idle"
    /\ op' = o
    /\ arg' = a
    /\ pc' = "lookup1"
    /\ held' = IF held = None THEN None
               ELSE IF o = "assert_rbac"
               THEN Some({rbac_decision(workloads, policies, a)})
               ELSE Some({})
    /\ UNCHANGED <<guards, storeVars, demand, dnsVars, first, demands, awaited, receipt,
                   delivered, removed, wl, result>>

CallFetch == \E o \in FetchOps : \E a \in FetchArgs(o) : Call(o, a)

CallRbac == \E c \in Connections : Call("assert_rbac", c)

\* The fetch returns r: a fetch method returns it to its caller, assert_rbac
\* goes on with it.
Fetched(r) ==
    IF op = "assert_rbac"
    THEN /\ wl' = r
         /\ pc' = assert_rbac_fetched(r).pc
         /\ result' = assert_rbac_fetched(r).result
    ELSE IF op \in UpstreamOps
    THEN /\ pc' = "find_upstream"
         /\ UNCHANGED <<wl, result>>
    ELSE /\ pc' = "done"
         /\ result' = r
         /\ wl' = wl

FirstLookup ==
    /\ pc = "lookup1"
    /\ LET r == lookup(FetchOp, FetchArg, workloads, services) IN
       /\ first' = r
       /\ IF r # None THEN Fetched(r)
          ELSE pc' = "on_demand" /\ UNCHANGED <<wl, result>>
    /\ UNCHANGED <<held, guards, storeVars, demand, dnsVars, op, arg, demands, awaited, receipt,
                   delivered, removed>>

\* fetch_on_demand sending the demand without awaiting its receipt.
fetch_on_demand_unawaited ==
    /\ pc = "on_demand"
    /\ IF demand
       THEN /\ demands' = Append(demands, [type_url |-> ADDRESS_TYPE,
                                           name |-> to_string(FetchOp, FetchArg)])
            /\ receipt' = "pending"
       ELSE UNCHANGED <<demands, receipt>>
    /\ pc' = "lookup2"
    /\ UNCHANGED <<held, guards, storeVars, demand, dnsVars, op, arg, first, awaited, delivered,
                   removed, wl, result>>

\* fetch_on_demand that, without a discovery client, ends the fetch with the
\* first lookup's result.
fetch_on_demand_first_final ==
    /\ pc = "on_demand"
    /\ IF demand
       THEN /\ demands' = Append(demands, [type_url |-> ADDRESS_TYPE,
                                           name |-> to_string(FetchOp, FetchArg)])
            /\ receipt' = "pending"
            /\ pc' = "awaiting"
            /\ UNCHANGED <<wl, result>>
       ELSE /\ Fetched(first)
            /\ UNCHANGED <<demands, receipt>>
    /\ UNCHANGED <<held, guards, storeVars, demand, dnsVars, op, arg, first, awaited, delivered,
                   removed>>

fetch_on_demand ==
    /\ pc = "on_demand"
    /\ IF demand
       THEN /\ demands' = Append(demands, [type_url |-> ADDRESS_TYPE,
                                           name |-> to_string(FetchOp, FetchArg)])
            /\ receipt' = "pending"
            /\ pc' = "awaiting"
       ELSE /\ pc' = "lookup2"
            /\ UNCHANGED <<demands, receipt>>
    /\ UNCHANGED <<held, guards, storeVars, demand, dnsVars, op, arg, first, awaited, delivered,
                   removed, wl, result>>

RecvReceipt ==
    /\ pc = "awaiting"
    /\ receipt = "signalled"
    /\ awaited' = awaited + 1
    /\ receipt' = "received"
    /\ pc' = "lookup2"
    /\ UNCHANGED <<held, guards, storeVars, demand, dnsVars, op, arg, first, demands, delivered,
                   removed, wl, result>>

\* A fetch that returns what its first lookup found instead of reading again.
SecondLookup_stale ==
    /\ pc = "lookup2"
    /\ Fetched(first)
    /\ UNCHANGED <<held, guards, storeVars, demand, dnsVars, op, arg, first, demands, awaited,
                   receipt, delivered, removed>>

SecondLookup ==
    /\ pc = "lookup2"
    /\ Fetched(lookup(FetchOp, FetchArg, workloads, services))
    /\ UNCHANGED <<held, guards, storeVars, demand, dnsVars, op, arg, first, demands, awaited,
                   receipt, delivered, removed>>

Evaluate ==
    /\ pc = "rbac"
    /\ result' = Bool(assert_rbac_decide(wl.val, policies, arg))
    /\ pc' = "done"
    /\ UNCHANGED <<held, guards, storeVars, demand, dnsVars, op, arg, first, demands, awaited,
                   receipt, delivered, removed, wl>>

\* The arguments of the fetch_upstream and fetch_waypoint calls.
UpstreamArgs ==
    [network : {"", "remote"},
     addr : { SocketAddr(ip, port) :
                ip \in {"10.0.0.1", "10.0.0.2", "10.0.0.3"},
                port \in {80, 443, 15008} }]

WaypointArgs ==
    [wl : { [name |-> "client", waypoint |-> wp] :
              wp \in {None}
                  \cup { Some([destination |-> d, hbone_mtls_port |-> 15008]) :
                           d \in { DestinationAddress(network_addr("", ip)) :
                                     ip \in {"10.0.0.1", "10.0.0.2", "10.0.0.3"} }
                                 \cup { DestinationHostname(
                                            [namespace |-> "default",
                                             hostname |-> "svc.host"]) } } },
     workload_ip : {"10.1.1.1"}]

CallUpstream == \E a \in UpstreamArgs : Call("fetch_upstream", a)

CallWaypoint ==
    /\ pc = "idle"
    /\ \E a \in WaypointArgs :
        /\ op' = "fetch_waypoint"
        /\ arg' = a
    /\ pc' = "waypoint"
    /\ UNCHANGED <<held, guards, storeVars, demand, dnsVars, first, demands, awaited, receipt,
                   delivered, removed, wl, result>>

\* fetch_waypoint up to its call of fetch_upstream.
fetch_waypoint ==
    /\ pc = "waypoint"
    /\ pc' = fetch_waypoint_entry(arg.wl).pc
    /\ result' = fetch_waypoint_entry(arg.wl).result
    /\ UNCHANGED <<held, guards, storeVars, demand, dnsVars, op, arg, first, demands, awaited,
                   receipt, delivered, removed, wl>>

\* fetch_waypoint setting the gateway address in the stored workload too.
fetch_upstream_stored_gateway ==
    /\ pc = "find_upstream"
    /\ \E us \in find_upstream(workloads, services, UpstreamNetwork, UpstreamAddr) :
        /\ result' = IF op = "fetch_waypoint"
                     THEN fetch_waypoint_found(arg.wl.name, arg.wl.waypoint.val,
                                               arg.workload_ip, us)
                     ELSE us
        /\ workloads' = IF op = "fetch_waypoint" /\ result'.tag = "Ok"
                        THEN workloads_insert(workloads, result'.val.val.workload)
                        ELSE workloads
    /\ pc' = "done"
    /\ UNCHANGED <<held, guards, services, policies, demand, dnsVars, op, arg, first,
                   demands, awaited, receipt, delivered, removed, wl>>

\* fetch_upstream after fetch_address: find_upstream under the read lock, and
\* for fetch_waypoint what it makes of the outcome.
fetch_upstream ==
    /\ pc = "find_upstream"
    /\ \E us \in find_upstream(workloads, services, UpstreamNetwork, UpstreamAddr) :
        result' = IF op = "fetch_waypoint"
                  THEN fetch_waypoint_found(arg.wl.name, arg.wl.waypoint.val,
                                            arg.workload_ip, us)
                  ELSE us
    /\ pc' = "done"
    /\ UNCHANGED <<held, guards, storeVars, demand, dnsVars, op, arg, first, demands, awaited,
                   receipt, delivered, removed, wl>>

Return ==
    /\ pc = "done"
    /\ op' = "none"
    /\ arg' = None
    /\ pc' = "idle"
    /\ first' = None
    /\ demands' = <<>>
    /\ awaited' = 0
    /\ receipt' = "none"
    /\ delivered' = None
    /\ removed' = FALSE
    /\ wl' = None
    /\ result' = None
    /\ held' = IF held = None THEN None ELSE Some({})
    /\ UNCHANGED <<guards, storeVars, demand, dnsVars>>

(***************************************************************************)
(* The discovery updater, writing under the write lock, and the discovery  *)
(* client answering a demand: it applies the record for the demanded key   *)
(* (or nothing, when the server declares the key absent) and then signals  *)
(* the receipt.                                                            *)
(***************************************************************************)
\* Bookkeeping of a write that leaves (ws, ss): it removed, replaced or hid
\* the delivered record if the waiting call's key no longer denotes it.
Disturbs(ws, ss) ==
    /\ pc \in {"awaiting", "lookup2"}
    /\ receipt \in {"written", "signalled", "received"}
    /\ delivered # None
    /\ lookup(FetchOp, FetchArg, ws, ss) # delivered

UpdateWorkload ==
    \E w \in WorkloadCatalog \ workloads :
        /\ workloads' = workloads_insert(workloads, w)
        /\ removed' = (removed \/ Disturbs(workloads', services))
        /\ held' = record(workloads', policies)
        /\ UNCHANGED <<guards, services, policies, demand, dnsVars, op, arg, pc, first, demands,
                       awaited, receipt, delivered, wl, result>>

RemoveWorkload ==
    \E w \in workloads :
        /\ workloads' = workloads_remove(workloads, w.uid)
        /\ removed' = (removed \/ Disturbs(workloads', services))
        /\ held' = record(workloads', policies)
        /\ UNCHANGED <<guards, services, policies, demand, dnsVars, op, arg, pc, first, demands,
                       awaited, receipt, delivered, wl, result>>

UpdateService ==
    \E s \in ServiceCatalog \ services :
        /\ services' = services_insert(services, s)
        /\ removed' = (removed \/ Disturbs(workloads, services'))
        /\ held' = record(workloads, policies)
        /\ UNCHANGED <<guards, workloads, policies, demand, dnsVars, op, arg, pc, first, demands,
                       awaited, receipt, delivered, wl, result>>

RemoveService ==
    \E s \in services :
        /\ services' = services_remove(services, s.name)
        /\ removed' = (removed \/ Disturbs(workloads, services'))
        /\ held' = record(workloads, policies)
        /\ UNCHANGED <<guards, workloads, policies, demand, dnsVars, op, arg, pc, first, demands,
                       awaited, receipt, delivered, wl, result>>

UpdatePolicy ==
    \E p \in PolicyCatalog \ policies :
        /\ policies' = policies_insert(policies, p)
        /\ held' = record(workloads, policies')
        /\ UNCHANGED <<guards, workloads, services, demand, dnsVars, callVars>>

RemovePolicy ==
    \E p \in policies :
        /\ policies' = policies_remove(policies, p.key)
        /\ held' = record(workloads, policies')
        /\ UNCHANGED <<guards, workloads, services, demand, dnsVars, callVars>>

WorkloadKeys(w) ==
    {w.uid}
    \cup { to_string("fetch_address", a) : a \in WorkloadAddrs(w) }
    \cup { to_string("fetch_hostname", nh) :
             nh \in { m \in NamespacedHostnames :
                       w.hostname # "" /\ m.hostname = w.hostname } }

ServiceKeys(s) ==
    { to_string("fetch_address", a) : a \in s.vips }
    \cup { to_string("fetch_hostname",
                     [namespace |-> s.namespace, hostname |-> s.hostname]) }

Responses(name) ==
    { [kind |-> "workload", rec |-> w] :
        w \in { x \in WorkloadCatalog : name \in WorkloadKeys(x) } }
    \cup { [kind |-> "service", rec |-> x] :
        x \in { y \in ServiceCatalog : name \in ServiceKeys(y) } }
    \cup { [kind |-> "absent", rec |-> None] }

DeliverWrite ==
    /\ receipt = "pending"
    /\ \E r \in Responses(demands[Len(demands)].name) :
        /\ workloads' = IF r.kind = "workload"
                        THEN workloads_insert(workloads, r.rec) ELSE workloads
        /\ services' = IF r.kind = "service"
                       THEN services_insert(services, r.rec) ELSE services
    /\ delivered' = lookup(FetchOp, FetchArg, workloads', services')
    /\ receipt' = "written"
    /\ held' = record(workloads', policies)
    /\ UNCHANGED <<guards, policies, demand, dnsVars, op, arg, pc, first, demands, awaited,
                   removed, wl, result>>

Signal ==
    /\ receipt = "written"
    /\ receipt' = "signalled"
    /\ UNCHANGED <<held, guards, storeVars, demand, dnsVars, op, arg, pc, first, demands, awaited,
                   delivered, removed, wl, result>>

vars == <<storeVars, demand, callVars, dnsVars, guards, held>>

\* The fetch methods against the updater.
Next ==
    \/ CallFetch
    \/ FirstLookup
    \/ fetch_on_demand
    \/ RecvReceipt
    \/ SecondLookup
    \/ Return
    \/ DeliverWrite
    \/ Signal
    \/ UpdateWorkload
    \/ RemoveWorkload
    \/ UpdateService
    \/ RemoveService

Spec == Init /\ [][Next]_vars

\* assert_rbac against the updater.
NextRbac ==
    \/ CallRbac
    \/ FirstLookup
    \/ fetch_on_demand
    \/ RecvReceipt
    \/ SecondLookup
    \/ Evaluate
    \/ Return
    \/ DeliverWrite
    \/ Signal
    \/ UpdateWorkload
    \/ RemoveWorkload
    \/ UpdatePolicy
    \/ RemovePolicy

SpecRbac == Init /\ [][NextRbac]_vars

\* assert_rbac against the updater, with the decisions of the states held
\* during each call recorded in held.
InitRecorded ==
    InitFacade /\ held = Some({}) /\ demand \in BOOLEAN /\ InitResolver

SpecRbacRecorded == InitRecorded /\ [][NextRbac]_vars

\* The updater delivering a version of the workload of GatewayCatalog.
UpdateGateway ==
    \E w \in GatewayCatalog \ workloads :
        /\ workloads' = workloads_insert(workloads, w)
        /\ removed' = (removed \/ Disturbs(workloads', services))
        /\ held' = record(workloads', policies)
        /\ UNCHANGED <<guards, services, policies, demand, dnsVars, op, arg, pc, first, demands,
                       awaited, receipt, delivered, wl, result>>

\* fetch_upstream and fetch_waypoint against the updater.
NextUpstream ==
    \/ CallUpstream
    \/ CallWaypoint
    \/ fetch_waypoint
    \/ FirstLookup
    \/ fetch_on_demand
    \/ RecvReceipt
    \/ SecondLookup
    \/ fetch_upstream
    \/ Return
    \/ DeliverWrite
    \/ Signal
    \/ UpdateWorkload
    \/ RemoveWorkload
    \/ UpdateGateway
    \/ UpdateService
    \/ RemoveService

SpecUpstream == Init /\ [][NextUpstream]_vars

(***************************************************************************)
(* DnsResolver::resolve_host, one step per lock acquisition or await.      *)
(***************************************************************************)
facadeVars == <<storeVars, demand, callVars, held>>

\* The entry: the first look at the cache.
resolve_host(p) ==
    /\ dpc[p] = "idle"
    /\ \E h \in Hosts :
        /\ host' = [host EXCEPT ![p] = h]
        /\ LET r == find_resolved_host(resolved, h, now) IN
           IF r # None
           THEN /\ dresult' = [dresult EXCEPT ![p] = r]
                /\ dpc' = [dpc EXCEPT ![p] = "done"]
           ELSE /\ dpc' = [dpc EXCEPT ![p] = "get_notify"]
                /\ UNCHANGED dresult
    /\ UNCHANGED <<guards, facadeVars, lookup_outcome, resolved, in_progress, notify_calls, now,
                   n, is_first, snapshot>>

GetOrCreateNotify(p) ==
    /\ dpc[p] = "get_notify"
    /\ LET r == get_or_create_notify(in_progress, host[p], p) IN
        /\ in_progress' = r.in_progress
        /\ n' = [n EXCEPT ![p] = r.n]
        /\ is_first' = [is_first EXCEPT ![p] = r.is_first]
        /\ dpc' = [dpc EXCEPT ![p] = IF r.is_first THEN "lookup" ELSE "notified"]
    /\ UNCHANGED <<guards, facadeVars, lookup_outcome, resolved, notify_calls, now, host, snapshot,
                   dresult>>

\* _resolve_host dropping the hostname's entry when it fails.
LookupDone_evicting(p) ==
    /\ dpc[p] = "lookup"
    /\ \E resp \in { [tag |-> "ResolverErr"], [tag |-> "LookupErr"] }
                     \cup { Some(r) : r \in DnsResponses } :
        /\ resolved' = IF resp.tag # "Some"
                       THEN [resolved EXCEPT ![host[p]] = None]
                       ELSE [resolved EXCEPT
                               ![host[p]] = Some(ResolvedDns(host[p], resp.val, now))]
        /\ lookup_outcome' =
              [lookup_outcome EXCEPT
                 ![p] = IF resp.tag # "Some" THEN [tag |-> "Failed"]
                        ELSE [tag |-> "Stored", records |-> resp.val,
                              at |-> now]]
    /\ dpc' = [dpc EXCEPT ![p] = "notify_waiters"]
    /\ UNCHANGED <<guards, facadeVars, in_progress, notify_calls, now, host, n,
                   is_first, snapshot, dresult>>

\* _resolve_host: building the resolver fails, or lookup_ip fails, or its
\* response is stored.  The caller is in "lookup" while _resolve_host runs.
LookupDone(p) ==
    /\ dpc[p] = "lookup"
    /\ \E resp \in { [tag |-> "ResolverErr"], [tag |-> "LookupErr"] }
                     \cup { Some(r) : r \in DnsResponses } :
        /\ resolved' = IF resp.tag # "Some" THEN resolved
                       ELSE [resolved EXCEPT
                               ![host[p]] = Some(ResolvedDns(host[p], resp.val, now))]
        /\ lookup_outcome' =
              [lookup_outcome EXCEPT
                 ![p] = IF resp.tag # "Some" THEN [tag |-> "Failed"]
                        ELSE [tag |-> "Stored", records |-> resp.val,
                              at |-> now]]
    /\ dpc' = [dpc EXCEPT ![p] = "notify_waiters"]
    /\ UNCHANGED <<guards, facadeVars, in_progress, notify_calls, now, host, n,
                   is_first, snapshot, dresult>>

NotifyWaiters(p) ==
    /\ dpc[p] = "notify_waiters"
    /\ notify_calls' = [notify_calls EXCEPT ![n[p].val] = @ + 1]
    /\ dpc' = [dpc EXCEPT ![p] = "remove"]
    /\ UNCHANGED <<guards, facadeVars, lookup_outcome, resolved, in_progress, now, host, n, is_first,
                   snapshot, dresult>>

RemoveInProgress(p) ==
    /\ dpc[p] = "remove"
    /\ in_progress' = [in_progress EXCEPT ![host[p]] = None]
    /\ dpc' = [dpc EXCEPT ![p] = "reread"]
    /\ UNCHANGED <<guards, facadeVars, lookup_outcome, resolved, notify_calls, now, host, n, is_first,
                   snapshot, dresult>>

\* n.notified(): the future is created and sees the notify_waiters calls made
\* from now on.
Notified(p) ==
    /\ dpc[p] = "notified"
    /\ snapshot' = [snapshot EXCEPT ![p] = notify_calls[n[p].val]]
    /\ dpc' = [dpc EXCEPT ![p] = "waiting"]
    /\ UNCHANGED <<guards, facadeVars, lookup_outcome, resolved, in_progress, notify_calls, now, host,
                   n, is_first, dresult>>

\* The await of the future completes once notify_waiters was called.
Wake(p) ==
    /\ dpc[p] = "waiting"
    /\ notify_calls[n[p].val] # snapshot[p]
    /\ dpc' = [dpc EXCEPT ![p] = "reread"]
    /\ UNCHANGED <<guards, facadeVars, lookup_outcome, resolved, in_progress, notify_calls, now, host,
                   n, is_first, snapshot, dresult>>

Reread(p) ==
    /\ dpc[p] = "reread"
    /\ dresult' = [dresult EXCEPT
                     ![p] = find_resolved_host(resolved, host[p], now)]
    /\ dpc' = [dpc EXCEPT ![p] = "done"]
    /\ UNCHANGED <<guards, facadeVars, lookup_outcome, resolved, in_progress, notify_calls, now, host,
                   n, is_first, snapshot>>

\* The caller's task is dropped at one of its awaits.
Cancel(p) ==
    /\ dpc[p] \in {"lookup", "waiting"}
    /\ dpc' = [dpc EXCEPT ![p] = "cancelled"]
    /\ UNCHANGED <<guards, facadeVars, lookup_outcome, resolved, in_progress, notify_calls, now, host,
                   n, is_first, snapshot, dresult>>

Tick ==
    /\ now < MaxTime
    /\ now' = now + 1
    /\ UNCHANGED <<guards, facadeVars, lookup_outcome, resolved, in_progress, notify_calls,
                   dpc, host, n, is_first, snapshot, dresult>>

InitDns == InitFacade /\ held = None /\ demand = FALSE /\ InitResolver

NextDns ==
    \/ \E p \in Callers : resolve_host(p)
    \/ \E p \in Callers : GetOrCreateNotify(p)
    \/ \E p \in Callers : LookupDone(p)
    \/ \E p \in Callers : NotifyWaiters(p)
    \/ \E p \in Callers : RemoveInProgress(p)
    \/ \E p \in Callers : Notified(p)
    \/ \E p \in Callers : Wake(p)
    \/ \E p \in Callers : Reread(p)
    \/ Tick

\* resolve_host callers that run to completion.
SpecDns == InitDns /\ [][NextDns]_vars

\* resolve_host callers that may be cancelled.
SpecDnsCancel ==
    InitDns /\ [][NextDns \/ \E p \in Callers : Cancel(p)]_vars

(***************************************************************************)
(* DemandProxyState::load_balance, run by one task that calls resolve_host *)
(* as caller LbCaller while the other callers use the resolver as they     *)
(* like.                                                                   *)
(***************************************************************************)
LbCaller == CHOOSE p \in Callers : \A q \in Callers : p <= q

\* The destination workloads load_balance is called with: one with addresses
\* (and a hostname), one with neither, one with a hostname only.
LbDestinations ==
    { [uid |-> "d1", hostname |-> "a.example",
       workload_ips |-> <<"10.0.0.1", "10.0.0.4">>],
      [uid |-> "d2", hostname |-> "", workload_ips |-> <<>>],
      [uid |-> "d3", hostname |-> "a.example", workload_ips |-> <<>>] }

\* load_balance up to its call of resolve_host: the values it may return at
\* once, or the call.
load_balance_entry(dst_workload) ==
    IF dst_workload.workload_ips # <<>>
    THEN { [pc |-> "done", result |-> Ok(dst_workload.workload_ips[i])] :
             i \in DOMAIN dst_workload.workload_ips }
    ELSE IF dst_workload.hostname = ""
    THEN { [pc |-> "done", result |-> Err("NoValidDestination")] }
    ELSE { [pc |-> "resolve_host", result |-> None] }

\* load_balance taking an entry without addresses for a resolver miss.
load_balance_resolved_unchecked(dst_workload, rdns) ==
    IF rdns # None /\ rdns.val.ips # {}
    THEN { Ok(ip) : ip \in rdns.val.ips }
    ELSE { Err("NoResolvedAddresses") }

\* The values load_balance may return for what resolve_host returned.
load_balance_resolved(dst_workload, rdns) ==
    IF rdns # None
    THEN IF rdns.val.ips = {} THEN { Err("EmptyResolvedAddresses") }
         ELSE { Ok(ip) : ip \in rdns.val.ips }
    ELSE { Err("NoResolvedAddresses") }

CallLoadBalance ==
    /\ pc = "idle"
    /\ op' = "load_balance"
    /\ \E d \in LbDestinations : arg' = [dst_workload |-> d]
    /\ pc' = "load_balance"
    /\ UNCHANGED <<held, guards, storeVars, demand, dnsVars, first, demands, awaited, receipt,
                   delivered, removed, wl, result>>

load_balance ==
    /\ pc = "load_balance"
    /\ \E r \in load_balance_entry(arg.dst_workload) :
        /\ pc' = r.pc
        /\ result' = r.result
    /\ UNCHANGED <<held, guards, storeVars, demand, dnsVars, op, arg, first, demands, awaited,
                   receipt, delivered, removed, wl>>

\* load_balance's call of resolve_host, for the destination's hostname.
load_balance_resolve_host ==
    /\ pc = "resolve_host"
    /\ resolve_host(LbCaller)
    /\ host'[LbCaller] = arg.dst_workload.hostname

\* resolve_host has returned to load_balance.
load_balance_return ==
    /\ pc = "resolve_host"
    /\ dpc[LbCaller] = "done"
    /\ result' \in load_balance_resolved(arg.dst_workload, dresult[LbCaller])
    /\ pc' = "done"
    /\ UNCHANGED <<held, guards, storeVars, demand, dnsVars, op, arg, first, demands, awaited,
                   receipt, delivered, removed, wl>>

NextLb ==
    \/ CallLoadBalance
    \/ load_balance
    \/ load_balance_resolve_host
    \/ load_balance_return
    \/ \E p \in Callers \ {LbCaller} : resolve_host(p)
    \/ \E p \in Callers : GetOrCreateNotify(p)
    \/ \E p \in Callers : LookupDone(p)
    \/ \E p \in Callers : NotifyWaiters(p)
    \/ \E p \in Callers : RemoveInProgress(p)
    \/ \E p \in Callers : Notified(p)
    \/ \E p \in Callers : Wake(p)
    \/ \E p \in Callers : Reread(p)
    \/ Tick

\* One load_balance call next to other users of the resolver.
SpecLb == InitDns /\ [][NextLb]_vars

(***************************************************************************)
(* The same operations with one step per lock acquisition: a guard is      *)
(* taken in one step and dropped by the step that ends the statement or    *)
(* the function it lives in.  A run has either a task calling assert_rbac  *)
(* or tasks calling resolve_host; the operations of the one never touch    *)
(* the locks of the other.                                                 *)
(***************************************************************************)
\* RwLock::read on the proxy state waits while the writer holds the lock.
state_read ==
    /\ pc \in {"lookup1", "lookup2", "rbac"}
    /\ guards.facade = {}
    /\ "state.write" \notin guards.updater
    /\ guards' = [guards EXCEPT !.facade = {"state.read"}]
    /\ UNCHANGED <<held, storeVars, demand, callVars, dnsVars>>

\* RwLock::write on the proxy state waits while a reader holds the lock.
state_write ==
    /\ guards.updater = {}
    /\ "state.read" \notin guards.facade
    /\ guards' = [guards EXCEPT !.updater = {"state.write"}]
    /\ UNCHANGED <<held, storeVars, demand, callVars, dnsVars>>

\* The first lookup keeping its read guard in a local that lives to the end
\* of fetch_workload.
fetch_workload_first_holding ==
    /\ pc = "lookup1"
    /\ "state.read" \in guards.facade
    /\ LET r == lookup(FetchOp, FetchArg, workloads, services) IN
       /\ first' = r
       /\ IF r # None
          THEN Fetched(r) /\ guards' = [guards EXCEPT !.facade = {}]
          ELSE pc' = "on_demand" /\ UNCHANGED <<wl, result, guards>>
    /\ UNCHANGED <<held, storeVars, demand, dnsVars, op, arg, demands, awaited, receipt,
                   delivered, removed>>

\* fetch_workload's first lookup: the guard is a temporary of the if-let,
\* dropped before the statement that follows it.
fetch_workload_first ==
    /\ pc = "lookup1"
    /\ "state.read" \in guards.facade
    /\ LET r == lookup(FetchOp, FetchArg, workloads, services) IN
       /\ first' = r
       /\ IF r # None THEN Fetched(r)
          ELSE pc' = "on_demand" /\ UNCHANGED <<wl, result>>
    /\ guards' = [guards EXCEPT !.facade = {}]
    /\ UNCHANGED <<held, storeVars, demand, dnsVars, op, arg, demands, awaited, receipt,
                   delivered, removed>>

\* fetch_workload's second lookup: the guard is a temporary of the tail
\* expression.
fetch_workload_second ==
    /\ pc = "lookup2"
    /\ "state.read" \in guards.facade
    /\ Fetched(lookup(FetchOp, FetchArg, workloads, services))
    /\ guards' = [guards EXCEPT !.facade = {}]
    /\ UNCHANGED <<held, storeVars, demand, dnsVars, op, arg, first, demands, awaited,
                   receipt, delivered, removed>>

\* assert_rbac from its `let state` to its return, where the guard is dropped.
assert_rbac_evaluate ==
    /\ pc = "rbac"
    /\ "state.read" \in guards.facade
    /\ result' = Bool(assert_rbac_decide(wl.val, policies, arg))
    /\ pc' = "done"
    /\ guards' = [guards EXCEPT !.facade = {}]
    /\ UNCHANGED <<held, storeVars, demand, dnsVars, op, arg, first, demands, awaited,
                   receipt, delivered, removed, wl>>

\* The updater's write of a workload record or tombstone, under its guard.
updater_write ==
    /\ "state.write" \in guards.updater
    /\ \/ \E w \in WorkloadCatalog \ workloads :
            workloads' = workloads_insert(workloads, w)
       \/ \E w \in workloads :
            workloads' = workloads_remove(workloads, w.uid)
    /\ removed' = (removed \/ Disturbs(workloads', services))
    /\ guards' = [guards EXCEPT !.updater = {}]
    /\ UNCHANGED <<held, services, policies, demand, dnsVars, op, arg, pc, first, demands,
                   awaited, receipt, delivered, wl, result>>

\* The discovery client's write of a demanded record, under the write guard.
updater_deliver ==
    /\ "state.write" \in guards.updater
    /\ receipt = "pending"
    /\ \E r \in Responses(demands[Len(demands)].name) :
        /\ workloads' = IF r.kind = "workload"
                        THEN workloads_insert(workloads, r.rec) ELSE workloads
        /\ services' = IF r.kind = "service"
                       THEN services_insert(services, r.rec) ELSE services
    /\ delivered' = lookup(FetchOp, FetchArg, workloads', services')
    /\ receipt' = "written"
    /\ guards' = [guards EXCEPT !.updater = {}]
    /\ UNCHANGED <<held, policies, demand, dnsVars, op, arg, pc, first, demands, awaited,
                   removed, wl, result>>

\* The callers holding one of the guards gs.
Holders(gs) == { q \in Callers : guards.resolver[q] \cap gs # {} }

\* RwLock::read on resolved, in _find_resolved_host.
resolved_read(p) ==
    /\ dpc[p] \in {"idle", "reread"}
    /\ guards.resolver[p] = {}
    /\ Holders({"resolved.write"}) = {}
    /\ guards' = [guards EXCEPT !.resolver[p] = {"resolved.read"}]
    /\ UNCHANGED <<held, storeVars, demand, callVars, dnsVars>>

\* Mutex::lock on in_progress, in _get_or_create_notify and before remove.
in_progress_lock(p) ==
    /\ dpc[p] \in {"get_notify", "remove"}
    /\ guards.resolver[p] = {}
    /\ Holders({"in_progress"}) = {}
    /\ guards' = [guards EXCEPT !.resolver[p] = {"in_progress"}]
    /\ UNCHANGED <<held, storeVars, demand, callVars, dnsVars>>

\* The first look at the cache; _find_resolved_host drops the guard when it
\* returns.
cache_check(p) ==
    /\ dpc[p] = "idle"
    /\ "resolved.read" \in guards.resolver[p]
    /\ \E h \in Hosts :
        /\ host' = [host EXCEPT ![p] = h]
        /\ LET r == find_resolved_host(resolved, h, now) IN
           IF r # None
           THEN /\ dresult' = [dresult EXCEPT ![p] = r]
                /\ dpc' = [dpc EXCEPT ![p] = "done"]
           ELSE /\ dpc' = [dpc EXCEPT ![p] = "get_notify"]
                /\ UNCHANGED dresult
    /\ guards' = [guards EXCEPT !.resolver[p] = {}]
    /\ UNCHANGED <<facadeVars, lookup_outcome, resolved, in_progress, notify_calls, now,
                   n, is_first, snapshot>>

\* _get_or_create_notify; the mutex guard is a local, dropped at the return.
create_notify(p) ==
    /\ dpc[p] = "get_notify"
    /\ "in_progress" \in guards.resolver[p]
    /\ LET r == get_or_create_notify(in_progress, host[p], p) IN
        /\ in_progress' = r.in_progress
        /\ n' = [n EXCEPT ![p] = r.n]
        /\ is_first' = [is_first EXCEPT ![p] = r.is_first]
        /\ dpc' = [dpc EXCEPT ![p] = IF r.is_first THEN "lookup" ELSE "notified"]
    /\ guards' = [guards EXCEPT !.resolver[p] = {}]
    /\ UNCHANGED <<facadeVars, lookup_outcome, resolved, notify_calls, now, host, snapshot,
                   dresult>>

\* The lookup await of _resolve_host completes: with an error it returns, with
\* a response it builds the entry and takes the write guard over resolved.
lookup_awaited(p) ==
    /\ dpc[p] = "lookup"
    /\ \E resp \in { [tag |-> "ResolverErr"], [tag |-> "LookupErr"] }
                     \cup { Some(r) : r \in DnsResponses } :
        IF resp.tag # "Some"
        THEN /\ lookup_outcome' = [lookup_outcome EXCEPT ![p] = [tag |-> "Failed"]]
             /\ dpc' = [dpc EXCEPT ![p] = "notify_waiters"]
             /\ UNCHANGED guards
        ELSE /\ Holders({"resolved.read", "resolved.write"}) = {}
             /\ lookup_outcome' =
                  [lookup_outcome EXCEPT
                     ![p] = [tag |-> "Stored", records |-> resp.val, at |-> now]]
             /\ dpc' = [dpc EXCEPT ![p] = "insert"]
             /\ guards' = [guards EXCEPT !.resolver[p] = {"resolved.write"}]
    /\ UNCHANGED <<facadeVars, resolved, in_progress, notify_calls, now, host, n,
                   is_first, snapshot, dresult>>

\* The insert into resolved that ends _resolve_host, and the guard's drop.
insert_resolved(p) ==
    /\ dpc[p] = "insert"
    /\ "resolved.write" \in guards.resolver[p]
    /\ resolved' = [resolved EXCEPT
                      ![host[p]] = Some(ResolvedDns(host[p],
                                                    lookup_outcome[p].records,
                                                    lookup_outcome[p].at))]
    /\ dpc' = [dpc EXCEPT ![p] = "notify_waiters"]
    /\ guards' = [guards EXCEPT !.resolver[p] = {}]
    /\ UNCHANGED <<facadeVars, lookup_outcome, in_progress, notify_calls, now, host,
                   n, is_first, snapshot, dresult>>

\* The removal from in_progress; the guard is a temporary of the statement.
remove_notify(p) ==
    /\ dpc[p] = "remove"
    /\ "in_progress" \in guards.resolver[p]
    /\ in_progress' = [in_progress EXCEPT ![host[p]] = None]
    /\ dpc' = [dpc EXCEPT ![p] = "reread"]
    /\ guards' = [guards EXCEPT !.resolver[p] = {}]
    /\ UNCHANGED <<facadeVars, lookup_outcome, resolved, notify_calls, now, host, n,
                   is_first, snapshot, dresult>>

\* The read of the cache that ends resolve_host.
serve_from_cache(p) ==
    /\ dpc[p] = "reread"
    /\ "resolved.read" \in guards.resolver[p]
    /\ dresult' = [dresult EXCEPT
                     ![p] = find_resolved_host(resolved, host[p], now)]
    /\ dpc' = [dpc EXCEPT ![p] = "done"]
    /\ guards' = [guards EXCEPT !.resolver[p] = {}]
    /\ UNCHANGED <<facadeVars, lookup_outcome, resolved, in_progress, notify_calls, now,
                   host, n, is_first, snapshot>>

\* Either the task calling assert_rbac or the callers of resolve_host are
\* there ("off" is the position of a task that is not).
InitLocks ==
    /\ guards = NoGuards
    /\ held = None
    /\ workloads = {}
    /\ services = {}
    /\ policies = {}
    /\ demand \in BOOLEAN
    /\ op = "none"
    /\ arg = None
    /\ first = None
    /\ demands = <<>>
    /\ awaited = 0
    /\ receipt = "none"
    /\ delivered = None
    /\ removed = FALSE
    /\ wl = None
    /\ result = None
    /\ resolved = [h \in Hosts |-> None]
    /\ in_progress = [h \in Hosts |-> None]
    /\ notify_calls = [p \in Callers |-> 0]
    /\ now = 0
    /\ host = [p \in Callers |-> ""]
    /\ n = [p \in Callers |-> None]
    /\ is_first = [p \in Callers |-> FALSE]
    /\ snapshot = [p \in Callers |-> 0]
    /\ dresult = [p \in Callers |-> None]
    /\ lookup_outcome = [p \in Callers |-> None]
    /\ \/ pc = "idle" /\ dpc = [p \in Callers |-> "off"]
       \/ pc = "off" /\ demand = FALSE /\ dpc = [p \in Callers |-> "idle"]

NextLocks ==
    \/ CallRbac
    \/ state_read
    \/ fetch_workload_first
    \/ fetch_on_demand
    \/ RecvReceipt
    \/ fetch_workload_second
    \/ assert_rbac_evaluate
    \/ Return
    \/ state_write
    \/ updater_write
    \/ updater_deliver
    \/ Signal
    \/ \E p \in Callers : resolved_read(p)
    \/ \E p \in Callers : cache_check(p)
    \/ \E p \in Callers : in_progress_lock(p)
    \/ \E p \in Callers : create_notify(p)
    \/ \E p \in Callers : lookup_awaited(p)
    \/ \E p \in Callers : insert_resolved(p)
    \/ \E p \in Callers : NotifyWaiters(p)
    \/ \E p \in Callers : remove_notify(p)
    \/ \E p \in Callers : Notified(p)
    \/ \E p \in Callers : Wake(p)
    \/ \E p \in Callers : serve_from_cache(p)

\* The updater next to a task calling assert_rbac, or next to the callers of
\* resolve_host, lock by lock.
SpecLocks == InitLocks /\ [][NextLocks]_vars

(***************************************************************************)
(* Properties of assert_rbac.                                              *)
(***************************************************************************)
\* The policies that apply to workload w: those of its namespace, those of
\* the global namespace and those attached to it, as far as they are stored.
Applicable(w, ps) ==
    { p \in ps :
        \/ PolicyNamespace(p.key) = w.namespace
        \/ PolicyNamespace(p.key) = ""
        \/ \E i \in DOMAIN w.authorization_policies :
               w.authorization_policies[i] = p.key }

DenyMatches(w, ps, conn) ==
    \E p \in Applicable(w, ps) : p.action = "Deny" /\ matches(p, conn)

AllowSet(w, ps) == { p \in Applicable(w, ps) : p.action = "Allow" }

AllowMatches(w, ps, conn) == \E p \in AllowSet(w, ps) : matches(p, conn)

\* The step in which assert_rbac reads the policies and decides.
EvaluateStep == pc = "rbac" /\ pc' = "done"

RbacDone == pc = "done" /\ op = "assert_rbac"

\* C1: whenever an applicable Deny policy matches the connection, assert_rbac
\* returns false, whatever Allow policies apply and whether they match.
C1_DenyWins ==
    [][(EvaluateStep /\ DenyMatches(wl.val, policies, arg))
          => result' = Bool(FALSE)]_vars

\* A call that returned false with a matching Deny next to a matching Allow.
C1_Witness ==
    /\ RbacDone
    /\ wl # None
    /\ result = Bool(FALSE)
    /\ DenyMatches(wl.val, policies, arg)
    /\ AllowMatches(wl.val, policies, arg)

\* C2: with the destination workload found, no applicable Deny matching and
\* no applicable Allow policy at all, assert_rbac returns true.
C2_DefaultAllow ==
    [][(EvaluateStep /\ ~DenyMatches(wl.val, policies, arg)
                     /\ AllowSet(wl.val, policies) = {})
          => result' = Bool(TRUE)]_vars

\* A call that returned true with only a non-matching Deny policy applying.
C2_Witness ==
    /\ RbacDone
    /\ wl # None
    /\ result = Bool(TRUE)
    /\ AllowSet(wl.val, policies) = {}
    /\ Applicable(wl.val, policies) # {}
    /\ ~DenyMatches(wl.val, policies, arg)

\* C3: with the destination workload found, no applicable Deny matching and
\* some applicable Allow policy, assert_rbac returns true exactly when one of
\* the applicable Allow policies matches.
C3_AllowIffMatch ==
    [][(EvaluateStep /\ ~DenyMatches(wl.val, policies, arg)
                     /\ AllowSet(wl.val, policies) # {})
          => result' = Bool(AllowMatches(wl.val, policies, arg))]_vars

\* A call allowed by one of two Allow policies, the other one not matching.
C3_Witness ==
    /\ RbacDone
    /\ wl # None
    /\ result = Bool(TRUE)
    /\ ~DenyMatches(wl.val, policies, arg)
    /\ \E p, q \in AllowSet(wl.val, policies) :
           matches(p, arg) /\ ~matches(q, arg)

\* C4: when the fetch path finds no workload at the connection's destination,
\* assert_rbac returns false: a boolean, never an error and never true.
C4_UnknownDestinationDenied ==
    RbacDone /\ wl = None => result = Bool(FALSE)

\* A call denied for a destination that is only a service VIP, with a policy
\* in the store that would otherwise allow the connection.
C4_Witness ==
    /\ RbacDone
    /\ wl = None
    /\ result = Bool(FALSE)
    /\ services_get_by_vip(services, network_addr(arg.dst_network, arg.dst)) # None
    /\ \E p \in policies : p.action = "Allow" /\ matches(p, arg)

\* The keys attached to workload w.
Attached(w) ==
    { w.authorization_policies[i] : i \in DOMAIN w.authorization_policies }

\* C22: the policies assert_rbac evaluates are exactly the stored policies
\* of the workload's namespace, of the global namespace and of the keys
\* attached to the workload; an attached key without a stored policy adds
\* nothing, and the decision is the one taken with every other stored policy
\* deleted from the store.
C22_PoliciesEvaluated ==
    [][EvaluateStep =>
         LET gathered == rbac_policies(wl.val, policies) IN
         /\ { gathered[i] : i \in DOMAIN gathered } = Applicable(wl.val, policies)
         /\ result' = Bool(assert_rbac_decide(wl.val,
                                              Applicable(wl.val, policies), arg))
         /\ \A ps \in SUBSET (policies \ Applicable(wl.val, policies)) :
               result' = Bool(assert_rbac_decide(wl.val, policies \ ps, arg))]_vars

\* A call allowed for a workload none of whose attached keys has a stored
\* policy: no Allow policy applies, and the store is not empty.
C22_Witness ==
    /\ RbacDone
    /\ wl # None
    /\ Attached(wl.val) # {}
    /\ \A k \in Attached(wl.val) : policies_get(policies, k) = None
    /\ policies # {}
    /\ AllowSet(wl.val, policies) = {}
    /\ result = Bool(TRUE)

\* C25: the result of assert_rbac is the decision function's value on one of
\* the states the proxy state held between the call and the decision.
C25_DecisionOfOneState ==
    (RbacDone /\ held # None) => result \in { Bool(d) : d \in held.val }

(***************************************************************************)
(* Properties of the fetch methods.                                        *)
(***************************************************************************)
FetchDone == pc = "done" /\ op \in FetchOps

\* The step in which a fetch method does its lookup after fetch_on_demand.
SecondLookupStep == pc = "lookup2" /\ pc' = "done"

\* C9: a fetch whose first lookup hits returns that hit and demands nothing;
\* one whose first lookup misses, with a discovery client attached, has issued
\* exactly one demand, for its stringified key, has consumed exactly one
\* delivery signal, and returns what its second lookup finds.
C9_FetchShape ==
    /\ [](FetchDone =>
            /\ (first # None =>
                   demands = <<>> /\ awaited = 0 /\ result = first)
            /\ (first = None /\ demand =>
                   /\ demands = <<[type_url |-> ADDRESS_TYPE,
                                   name |-> to_string(op, arg)]>>
                   /\ awaited = 1
                   /\ receipt = "received"))
    /\ [][(SecondLookupStep /\ op \in FetchOps)
             => result' = lookup(op, arg, workloads, services)]_vars

\* A fetch that missed, demanded, was signalled and then found the record.
C9_Witness ==
    /\ FetchDone
    /\ first = None
    /\ Len(demands) = 1
    /\ awaited = 1
    /\ result # None

\* C10: when the record for the demanded key was written before the receipt
\* was signalled, the fetch returns that record, unless the updater removed
\* (or replaced, or hid) it again before the fetch's second lookup.
C10_PostUpdateState ==
    (FetchDone /\ delivered # None /\ ~removed) => result = delivered

\* A fetch of a workload by address that returns the workload delivered for
\* its demand.
C10_Witness ==
    /\ FetchDone
    /\ op = "fetch_workload"
    /\ first = None
    /\ delivered # None
    /\ ~removed
    /\ result = delivered

\* C11 as stated: without a discovery client the first lookup's result is
\* final, so a fetch whose first lookup missed returns not found whatever the
\* updater writes meanwhile.
C11_FirstLookupFinal == (FetchDone /\ ~demand) => result = first

\* C11, amended: without a discovery client fetch_on_demand issues no demand
\* and awaits nothing, and the fetch returns what its last local lookup finds:
\* the first lookup's hit, or else the result of the second lookup made after
\* the no-op, which sees what the updater wrote in between.
C11_NoDemanderLastLookup ==
    [][(op \in FetchOps /\ ~demand /\ pc # "done" /\ pc' = "done")
          => /\ result' = lookup(op, arg, workloads, services)
             /\ demands' = <<>>
             /\ awaited' = 0
             /\ receipt' = "none"]_vars

\* A fetch without a discovery client whose first lookup missed and whose
\* second lookup found the record the updater had written by then.
C11_Witness ==
    /\ FetchDone
    /\ ~demand
    /\ first = None
    /\ result # None
    /\ demands = <<>>

(***************************************************************************)
(* Properties of the composite lookups.                                    *)
(***************************************************************************)
\* C12: find_address returns the workload indexed under the address whenever
\* there is one, also when a service has the address as a VIP; it returns a
\* service only when no workload has the address and the service has it as a
\* VIP; it returns None when neither table holds the address, the same IP in
\* another network not counting.
C12_FindAddressPrecedence ==
    \A a \in NetworkAddresses :
        LET W == { w \in workloads :
                     \E i \in DOMAIN w.workload_ips :
                         w.network = a.network /\ w.workload_ips[i] = a.address }
            S == { s \in services : a \in s.vips }
            r == find_address(workloads, services, a)
        IN /\ W # {} => r \in { Some(AddressWorkload(w)) : w \in W }
           /\ (W = {} /\ S # {}) => r \in { Some(AddressService(s)) : s \in S }
           /\ (W = {} /\ S = {}) => r = None

\* fetch_address returned the workload at an address that is also the VIP of
\* a stored service, while the same IP in another network denotes nothing.
C12_Witness ==
    /\ FetchDone
    /\ op = "fetch_address"
    /\ result # None
    /\ result.val.tag = "Workload"
    /\ result = find_address(workloads, services, arg)
    /\ \E s \in services : arg \in s.vips
    /\ find_address(workloads, services, network_addr("remote", arg.address)) = None

\* C13: find_hostname returns the service indexed under exactly the namespace
\* and hostname asked for whenever there is one; otherwise the workload with
\* that bare hostname, whatever the namespace asked for; otherwise None.
C13_FindHostnamePrecedence ==
    \A nh \in NamespacedHostnames :
        LET S == { s \in services :
                     s.namespace = nh.namespace /\ s.hostname = nh.hostname }
            W == { w \in workloads : w.hostname = nh.hostname }
            r == find_hostname(workloads, services, nh)
        IN /\ S # {} => r \in { Some(AddressService(s)) : s \in S }
           /\ (S = {} /\ W # {}) => r \in { Some(AddressWorkload(w)) : w \in W }
           /\ (S = {} /\ W = {}) => r = None

\* fetch_hostname returned the workload with the bare hostname for a namespace
\* that is not the workload's, while a service holds that hostname in another
\* namespace.
C13_Witness ==
    /\ FetchDone
    /\ op = "fetch_hostname"
    /\ result # None
    /\ result.val.tag = "Workload"
    /\ result.val.val.namespace # arg.namespace
    /\ result = find_hostname(workloads, services, arg)
    /\ \E s \in services : s.hostname = arg.hostname

\* The stored workloads indexed under an address, and the stored services
\* that have it as a VIP.
WorkloadsAt(na) ==
    { w \in workloads :
        \E i \in DOMAIN w.workload_ips :
            w.network = na.network /\ w.workload_ips[i] = na.address }

ServicesAt(na) == { s \in services : na \in s.vips }

UpstreamDone == pc = "done" /\ op = "fetch_upstream"

\* C14: for a VIP of service s and a port s declares, every Upstream that
\* find_upstream may return carries the stored workload of one of s's
\* endpoints, that endpoint's override for the port if it has one and s's
\* target port otherwise, s's subject_alt_names and the description of s, and
\* every endpoint whose workload is stored may be returned; for an address
\* that is no VIP but a workload's, it returns that workload with the port
\* asked for, no sans and no destination_service.
C14_FindUpstream ==
    \A a \in UpstreamArgs :
        LET na == [network |-> a.network, address |-> a.addr.ip]
            port == a.addr.port
            R == find_upstream(workloads, services, a.network, a.addr)
        IN /\ \A s \in ServicesAt(na) :
                 port \in DOMAIN s.ports =>
                   /\ \A r \in R \ {None} :
                        \E e \in s.endpoints :
                          /\ r.val.workload \in workloads
                          /\ r.val.workload.uid = e.workload_uid
                          /\ r.val.port = IF port \in DOMAIN e.port
                                          THEN e.port[port] ELSE s.ports[port]
                          /\ r.val.sans = s.subject_alt_names
                          /\ r.val.destination_service # None
                          /\ r.val.destination_service.val.name = s.name
                          /\ r.val.destination_service.val.namespace = s.namespace
                          /\ r.val.destination_service.val.hostname = s.hostname
                   /\ \A e \in s.endpoints :
                        (\E w \in workloads : w.uid = e.workload_uid) =>
                            \E r \in R \ {None} :
                                r.val.workload.uid = e.workload_uid
           /\ (ServicesAt(na) = {} /\ WorkloadsAt(na) # {}) =>
                 /\ Cardinality(R) = 1
                 /\ \A r \in R :
                      /\ r # None
                      /\ r.val.workload \in WorkloadsAt(na)
                      /\ r.val.port = port
                      /\ r.val.sans = <<>>
                      /\ r.val.destination_service = None

\* fetch_upstream returned the Upstream of an endpoint that overrides the port
\* asked for, while the service's other endpoint does not override it.
C14_Witness ==
    /\ UpstreamDone
    /\ result # None
    /\ result.val.destination_service # None
    /\ \E s \in ServicesAt(network_addr(arg.network, arg.addr.ip)) :
         /\ arg.addr.port \in DOMAIN s.ports
         /\ result.val.port # s.ports[arg.addr.port]
         /\ \E e \in s.endpoints :
              /\ arg.addr.port \notin DOMAIN e.port
              /\ \E w \in workloads : w.uid = e.workload_uid

\* C15: find_upstream may return None exactly when a service has the VIP but
\* does not declare the port, or has no endpoint, or has an endpoint whose
\* workload is not stored (the one picked), or when the address is neither a
\* VIP nor a workload's; in the first two cases it returns nothing else, also
\* when a workload has the same address.  What it returns is always an
\* Option, never an error.
C15_FindUpstreamNotFound ==
    \A a \in UpstreamArgs :
        LET na == [network |-> a.network, address |-> a.addr.ip]
            port == a.addr.port
            R == find_upstream(workloads, services, a.network, a.addr)
            Undeclared == \E s \in ServicesAt(na) : port \notin DOMAIN s.ports
            NoEndpoint == \E s \in ServicesAt(na) : s.endpoints = {}
            Stale == \E s \in ServicesAt(na) : \E e \in s.endpoints :
                         \A w \in workloads : w.uid # e.workload_uid
            Nothing == ServicesAt(na) = {} /\ WorkloadsAt(na) = {}
        IN /\ \A r \in R : r.tag \in {"None", "Some"}
           /\ None \in R <=> (Undeclared \/ NoEndpoint \/ Stale \/ Nothing)
           /\ (Undeclared \/ NoEndpoint \/ Nothing) => R = {None}

\* fetch_upstream returned None for a VIP whose service does not declare the
\* port, although a workload is stored under the same address.
C15_Witness ==
    /\ UpstreamDone
    /\ result = None
    /\ \E s \in ServicesAt(network_addr(arg.network, arg.addr.ip)) :
           arg.addr.port \notin DOMAIN s.ports
    /\ WorkloadsAt(network_addr(arg.network, arg.addr.ip)) # {}
    /\ find_upstream(workloads, services, arg.network, arg.addr) = {None}

WaypointDone == pc = "done" /\ op = "fetch_waypoint"

\* The step in which fetch_waypoint gets the outcome of fetch_upstream and
\* returns.
WaypointFoundStep == pc = "find_upstream" /\ op = "fetch_waypoint" /\ pc' = "done"

\* The gateway address C17 expects on the upstream of stored workload w that
\* was found with target port port, for the fetch_waypoint call in progress.
ExpectedGateway(w, port) ==
    IF w.gateway_address # None THEN w.gateway_address
    ELSE IF w.protocol = "HBONE"
    THEN Some([ip |-> IF w.waypoint # None
                      THEN w.waypoint.val.destination.val.address
                      ELSE arg.workload_ip,
               port |-> arg.wl.waypoint.val.hbone_mtls_port])
    ELSE Some([ip |-> arg.workload_ip, port |-> port])

\* C17: the upstream fetch_waypoint returns is a stored workload with only its
\* gateway_address adjusted: left as it is when set; otherwise, for HBONE, the
\* address of the upstream workload's own waypoint if it has one, else
\* workload_ip, with the caller's hbone_mtls_port; for TCP, workload_ip with
\* the upstream's port.
C17_GatewayAddress ==
    [][(WaypointFoundStep /\ result'.tag = "Ok") =>
          /\ result'.val # None
          /\ \E w \in workloads :
               /\ w.uid = result'.val.val.workload.uid
               /\ result'.val.val.workload =
                     [w EXCEPT !.gateway_address =
                                   ExpectedGateway(w, result'.val.val.port)]]_vars

\* fetch_waypoint returned an HBONE upstream whose gateway is the address of
\* the upstream workload's own waypoint, not workload_ip, with the caller's
\* HBONE port, not the one of the upstream workload's waypoint.
C17_Witness ==
    /\ WaypointDone
    /\ result.tag = "Ok"
    /\ result.val # None
    /\ result.val.val.workload.protocol = "HBONE"
    /\ result.val.val.workload.waypoint # None
    /\ result.val.val.workload.gateway_address # None
    /\ result.val.val.workload.gateway_address.val.ip # arg.workload_ip
    /\ result.val.val.workload.gateway_address.val.port
         = arg.wl.waypoint.val.hbone_mtls_port
    /\ result.val.val.workload.waypoint.val.hbone_mtls_port
         # arg.wl.waypoint.val.hbone_mtls_port

\* The found upstream us is one whose gateway address cannot be set.
GatewayFails(us) ==
    /\ us.workload.gateway_address = None
    /\ us.workload.protocol = "HBONE"
    /\ us.workload.waypoint # None
    /\ us.workload.waypoint.val.destination.tag = "Hostname"

\* C18: fetch_waypoint returns Ok(None) in its first step, with no lookup and
\* no demand, when wl.waypoint is absent, and UnsupportedFeature likewise when
\* the waypoint is given by hostname; after the fetch path it returns
\* FindWaypointError when the upstream is not found or its gateway address
\* cannot be set, and Ok(Some(upstream)) only for a found upstream whose
\* gateway address was set.
C18_WaypointErrors ==
    [][/\ (pc = "waypoint" /\ pc' # "waypoint") =>
            IF arg.wl.waypoint = None
            THEN /\ pc' = "done" /\ result' = Ok(None)
                 /\ first' = None /\ demands' = <<>> /\ receipt' = "none"
            ELSE IF arg.wl.waypoint.val.destination.tag = "Hostname"
            THEN /\ pc' = "done" /\ result' = Err("UnsupportedFeature")
                 /\ first' = None /\ demands' = <<>> /\ receipt' = "none"
            ELSE pc' = "lookup1" /\ result' = None
       /\ WaypointFoundStep =>
            LET F == find_upstream(workloads, services,
                                   UpstreamNetwork, UpstreamAddr) IN
            /\ result'.tag \in {"Ok", "Err"}
            /\ result'.tag = "Err" =>
                 /\ result' = Err("FindWaypointError")
                 /\ \/ None \in F
                    \/ \E us \in F \ {None} : GatewayFails(us.val)
            /\ result'.tag = "Ok" =>
                 /\ result'.val # None
                 /\ result'.val.val.workload.gateway_address # None
                 /\ \E us \in F \ {None} :
                      /\ ~GatewayFails(us.val)
                      /\ us.val.workload.uid = result'.val.val.workload.uid
                      /\ us.val.port = result'.val.val.port]_vars

\* fetch_waypoint returned FindWaypointError although the waypoint's upstream
\* is found: its gateway address could not be set.
C18_Witness ==
    /\ WaypointDone
    /\ result = Err("FindWaypointError")
    /\ \A us \in find_upstream(workloads, services, UpstreamNetwork, UpstreamAddr) :
           us # None /\ GatewayFails(us.val)

\* C24: no step of fetch_upstream or fetch_waypoint, the fetch_address they
\* start with included, changes the workload, service or policy table; when
\* fetch_waypoint returns an upstream whose gateway_address it has set, the
\* stored workload of that uid and the lookup of it are as before the step.
C24_FacadeFrame ==
    [][(pc' # pc) =>
          /\ workloads' = workloads
          /\ services' = services
          /\ policies' = policies
          /\ (WaypointFoundStep /\ result'.tag = "Ok") =>
                LET uid == result'.val.val.workload.uid IN
                /\ workloads_find_uid(workloads', uid)
                     = workloads_find_uid(workloads, uid)
                /\ find_address(workloads', services', FetchArg)
                     = find_address(workloads, services, FetchArg)]_vars

\* fetch_waypoint returned an upstream with a gateway address while the stored
\* workload of that uid has none.
C24_Witness ==
    /\ WaypointDone
    /\ result.tag = "Ok"
    /\ result.val # None
    /\ result.val.val.workload.gateway_address # None
    /\ \E w \in workloads :
          /\ w.uid = result.val.val.workload.uid
          /\ w.gateway_address = None
          /\ workloads_find_uid(workloads, w.uid) = Some(w)

(***************************************************************************)
(* Properties of DnsResolver::resolve_host.                                *)
(***************************************************************************)
\* The callers running _resolve_host for h, and the callers between creating
\* the Notify for h and removing it.
InFlight(h) == { p \in Callers : host[p] = h /\ dpc[p] = "lookup" }

Leaders(h) ==
    { p \in Callers :
        host[p] = h /\ dpc[p] \in {"lookup", "notify_waiters", "remove"} }

Waiters(h) ==
    { p \in Callers : host[p] = h /\ dpc[p] \in {"notified", "waiting"} }

\* C5: without cancellation, at most one lookup per hostname is in flight;
\* while in_progress[h] is present exactly one caller, the one that installed
\* it, is the leader, and a caller that then misses the cache becomes a
\* waiter and runs no lookup.
C5_SingleFlight ==
    \A h \in Hosts :
        /\ Cardinality(InFlight(h)) <= 1
        /\ in_progress[h] # None => Leaders(h) = {in_progress[h].val}
        /\ in_progress[h] = None => Leaders(h) = {}
        /\ \A p \in Leaders(h) : is_first[p]
        /\ \A p \in Waiters(h) : ~is_first[p] /\ n[p] # Some(p)

\* One lookup in flight with another caller of the same hostname waiting on
\* the leader's Notify.
C5_Witness ==
    \E p, q \in Callers :
        /\ p # q
        /\ host[p] = host[q]
        /\ dpc[p] = "lookup"
        /\ dpc[q] = "waiting"
        /\ n[q] = Some(p)

\* A waiter whose Notified future was created after the only notify_waiters
\* call on its Notify: nothing will wake it.
Blocked(p) ==
    /\ dpc[p] = "waiting"
    /\ notify_calls[n[p].val] = snapshot[p]
    /\ dpc[n[p].val] \notin {"lookup", "notify_waiters"}

\* C6: every caller that became a waiter returns after the leader finishes:
\* no waiter is left waiting for a wake-up that was already given.
C6_NoWaiterBlocksForever == \A p \in Callers : ~Blocked(p)

\* C7: a cancelled caller leaves no state behind: in_progress[h] is present
\* only while the leader that installed it is running.
C7_NoOrphanedInProgress ==
    \A h \in Hosts :
        in_progress[h] # None =>
            dpc[in_progress[h].val] \in {"lookup", "notify_waiters", "remove"}

\* resolved[h] is present and younger than its refresh rate.
Fresh(h) ==
    /\ resolved[h] # None
    /\ now - resolved[h].val.initial_query.val < resolved[h].val.dns_refresh_rate

\* C8: a resolve_host call that starts while resolved[h] is fresh returns that
\* entry at once: no lookup, no Notify created or waited on.
C8_CacheHit ==
    [][\A p \in Callers :
         (dpc[p] = "idle" /\ dpc'[p] # "idle" /\ Fresh(host'[p]))
           => /\ dpc'[p] = "done"
              /\ dresult'[p] = resolved[host'[p]]
              /\ n'[p] = None
              /\ in_progress' = in_progress
              /\ resolved' = resolved]_vars

\* A caller served from the cache a second or more after the resolution that
\* another caller led.
C8_Witness ==
    \E p, q \in Callers :
        /\ p # q
        /\ dpc[q] = "done" /\ is_first[q]
        /\ dpc[p] = "done" /\ n[p] = None
        /\ dresult[p] # None
        /\ dresult[p] = resolved[host[p]]
        /\ Fresh(host[p])
        /\ now > dresult[p].val.initial_query.val

Range(f) == { f[i] : i \in DOMAIN f }

\* The TTLs of the A and AAAA records of a response.
IpTtls(records) ==
    { records[i].ttl :
        i \in { j \in DOMAIN records : records[j].rr_type \in {"A", "AAAA"} } }

\* C19: while the leader that stored a response still holds in_progress[h],
\* the refresh rate of resolved[h] is the smallest TTL among the response's A
\* and AAAA records, records of other types not counting, and 60 seconds when
\* the response has no A or AAAA record.
C19_RefreshRate ==
    \A p \in Callers :
        (dpc[p] \in {"notify_waiters", "remove"}
           /\ lookup_outcome[p].tag = "Stored") =>
            LET T == IpTtls(lookup_outcome[p].records) IN
            /\ resolved[host[p]] # None
            /\ resolved[host[p]].val.dns_refresh_rate
                 = IF T = {} THEN 60
                   ELSE CHOOSE t \in T : \A u \in T : t <= u

\* A leader stored a response whose CNAME record has a smaller TTL than any
\* of its address records, which carry two different TTLs.
C19_Witness ==
    \E p \in Callers :
        /\ dpc[p] = "notify_waiters"
        /\ lookup_outcome[p].tag = "Stored"
        /\ Cardinality(IpTtls(lookup_outcome[p].records)) = 2
        /\ \E i \in DOMAIN lookup_outcome[p].records :
             /\ lookup_outcome[p].records[i].rr_type = "CNAME"
             /\ lookup_outcome[p].records[i].ttl
                  < resolved[host[p]].val.dns_refresh_rate

\* C20: once the leader's lookup has stored its response, the leader and every
\* waiter of its flight return the entry stored then, whatever TTL the
\* response carries.
C20_FlightReturnsStoredEntry ==
    \A p \in Callers :
        (dpc[p] = "done" /\ n[p] # None
           /\ lookup_outcome[n[p].val].tag = "Stored") =>
            /\ dresult[p] # None
            /\ dresult[p].val.initial_query = Some(lookup_outcome[n[p].val].at)
            /\ dresult[p].val.ips
                 = { r.data : r \in { x \in Range(lookup_outcome[n[p].val].records) :
                                        x.rr_type \in {"A", "AAAA"} } }

\* Caller p belongs to a flight whose leader's _resolve_host failed.
InFailedFlight(p) ==
    n[p] # None /\ lookup_outcome[n[p].val].tag = "Failed"

C23_NoGuardWhileSuspended ==
    /\ pc = "awaiting" => guards.facade = {}
    /\ \A p \in Callers :
          dpc[p] \in {"lookup", "waiting"} => guards.resolver[p] = {}
    /\ (pc = "awaiting" /\ guards.updater = {}) => ENABLED state_write

\* The updater holds the write guard while the lookup waits for its receipt.
C23_Witness ==
    /\ pc = "awaiting"
    /\ "state.write" \in guards.updater
    /\ guards.facade = {}

(***************************************************************************)
(* Properties of load_balance.                                             *)
(***************************************************************************)
LbDone == pc = "done" /\ op = "load_balance"

\* C16: for a destination with addresses load_balance returns one of them and
\* never calls the resolver; without addresses and without a hostname it
\* returns NoValidDestination, again without calling the resolver; otherwise
\* it returns NoResolvedAddresses when the resolver returned nothing,
\* EmptyResolvedAddresses when it returned an entry without addresses, and
\* else one of the entry's addresses.
C16_LoadBalance ==
    LbDone =>
        LET dst == arg.dst_workload
            rdns == dresult[LbCaller]
        IN IF dst.workload_ips # <<>>
           THEN /\ result.tag = "Ok"
                /\ \E i \in DOMAIN dst.workload_ips : result.val = dst.workload_ips[i]
                /\ dpc[LbCaller] = "idle"
           ELSE IF dst.hostname = ""
           THEN /\ result.tag = "Err"
                /\ result.val.error = "NoValidDestination"
                /\ dpc[LbCaller] = "idle"
           ELSE /\ dpc[LbCaller] = "done"
                /\ host[LbCaller] = dst.hostname
                /\ rdns = None =>
                     result.tag = "Err" /\ result.val.error = "NoResolvedAddresses"
                /\ (rdns # None /\ rdns.val.ips = {}) =>
                     result.tag = "Err" /\ result.val.error = "EmptyResolvedAddresses"
                /\ (rdns # None /\ rdns.val.ips # {}) =>
                     result.tag = "Ok" /\ result.val \in rdns.val.ips

\* load_balance returned EmptyResolvedAddresses for a hostname-only workload
\* after waiting for another caller's lookup, which stored an entry without
\* addresses.
C16_Witness ==
    /\ LbDone
    /\ arg.dst_workload.workload_ips = <<>>
    /\ result.tag = "Err"
    /\ result.val.error = "EmptyResolvedAddresses"
    /\ dresult[LbCaller] # None
    /\ n[LbCaller] # None
    /\ n[LbCaller] # Some(LbCaller)

=============================================================================
